---- MODULE Spec2Model ----
(***************************************************************************)
(* Feature/label materialization cell of                                   *)
(* examples/benchmark_ehrshot_xgboost.ipynb ("Build Features and Labels"). *)
(*                                                                         *)
(* The cell turns the samples of a task into a dense multi-hot matrix X,   *)
(* a label vector y and a split-tag vector, binarizes the labels of the    *)
(* "lab_" tasks and cuts X and y into the train / val / test partitions.   *)
(* Arrays are modelled as sequences; column c of a row (0-based, as in     *)
(* numpy) is element c + 1 of the sequence.                                *)
(***************************************************************************)
EXTENDS Integers, Sequences, FiniteSets

VARIABLES
    num_features,   \* samples.input_processors["feature"]._next_index
    task,           \* the task name, a sequence of characters
    samples,        \* the sample collection the loop iterates over
    i,              \* number of samples the loop has consumed in this run
    X, y, splits,   \* the accumulators, later the arrays
    X_train, y_train, X_val, y_val, X_test, y_test,
    pc,             \* "loop" | "split" | "done" | "raised"
    err,            \* kind of the exception that ended the cell, or "none"
    run,            \* 1 in the first execution of the cell, 2 in the second
    first           \* results of the first execution, kept for comparison

vars == <<num_features, task, samples, i, X, y, splits,
          X_train, y_train, X_val, y_val, X_test, y_test, pc, err, run, first>>

parts == <<X_train, y_train, X_val, y_val, X_test, y_test>>

(***************************************************************************)
(* Bounds of the explored inputs.                                          *)
(***************************************************************************)
MaxSamples == 2
MaxFeat == 2
MaxIdxLen == 1
MaxLabel == 2

(***************************************************************************)
(* Inputs.                                                                 *)
(***************************************************************************)
SplitTags == {"train", "val", "test", "held_out"}

Tasks == { <<"g", "u", "o", "_", "i", "c", "u">>,
           <<"l", "a", "b", "_", "a", "n", "e", "m", "i", "a">> }

LabPrefix == <<"l", "a", "b", "_">>

SeqsUpTo(S, n) == UNION { [1..k -> S] : k \in 0..n }

\* Index values offered to a feature space of size n: everything from one
\* below the wrap-around range to one past the last column.
IndexValues(n) == (0 - (n + 1))..n

\* Samples that vary the index array, with a fixed label and split tag.
EncodingSamples(n) ==
    [feature : SeqsUpTo(IndexValues(n), MaxIdxLen),
     label   : {0},
     split   : {"train"}]

\* Samples that vary the label and the split tag, over two index arrays.
LabelledSamples ==
    [feature : {<<>>, <<0>>},
     label   : 0..MaxLabel,
     split   : SplitTags]

\* The sample collections explored for a feature space of size n.
SampleSeqs(n) ==
    SeqsUpTo(EncodingSamples(n), MaxSamples) \cup SeqsUpTo(LabelledSamples, MaxSamples)

(***************************************************************************)
(* numpy / str helpers, as the cell uses them.                             *)
(***************************************************************************)
\* str.startswith
StartsWith(s, p) == Len(s) >= Len(p) /\ SubSeq(s, 1, Len(p)) = p

\* np.zeros(n, dtype=int)
Zeros(n) == [c \in 1..n |-> 0]

\* variant: the upper limit taken inclusive
IndexInBoundsInclusive(k, n) == k >= 0 - n /\ k <= n

\* numpy accepts an integer index k of an axis of length n iff -n <= k < n
IndexInBounds(k, n) == k >= 0 - n /\ k < n

\* numpy counts a negative index from the end of the axis
Normalize(k, n) == IF k < 0 THEN k + n ELSE k

\* vec[idx] = 1 for an integer index array whose entries are all in bounds
RECURSIVE SetOnes(_, _)
SetOnes(vec, idx) ==
    IF idx = <<>> THEN vec
    ELSE SetOnes([vec EXCEPT ![Normalize(Head(idx), Len(vec)) + 1] = 1], Tail(idx))

\* vec[idx] = 1 raises IndexError iff some entry of idx is out of bounds
AllInBounds(idx, n) == \A k \in 1..Len(idx) : IndexInBounds(idx[k], n)

\* the multi-hot row of one sample
MultiHot(feature, n) == SetOnes(Zeros(n), feature)

\* y[y >= 1] = 1
Threshold(arr) == [k \in 1..Len(arr) |-> IF arr[k] >= 1 THEN 1 ELSE arr[k]]

\* variant: splits != name
MaskNotEqual(tags, name) == [k \in 1..Len(tags) |-> tags[k] # name]

\* splits == name : the boolean mask
Mask(tags, name) == [k \in 1..Len(tags) |-> tags[k] = name]

\* variant: the selected rows come out in reverse order
RECURSIVE BoolIndexReversed(_, _)
BoolIndexReversed(arr, mask) ==
    IF arr = <<>> THEN <<>>
    ELSE IF Head(mask) THEN BoolIndexReversed(Tail(arr), Tail(mask)) \o <<Head(arr)>>
         ELSE BoolIndexReversed(Tail(arr), Tail(mask))

\* arr[mask] : the rows of arr where mask is True, in order
RECURSIVE BoolIndex(_, _)
BoolIndex(arr, mask) ==
    IF arr = <<>> THEN <<>>
    ELSE IF Head(mask) THEN <<Head(arr)>> \o BoolIndex(Tail(arr), Tail(mask))
         ELSE BoolIndex(Tail(arr), Tail(mask))

(***************************************************************************)
(* The cell.                                                               *)
(***************************************************************************)
Init ==
    /\ num_features \in 0..MaxFeat
    /\ task \in Tasks
    /\ samples \in SampleSeqs(num_features)
    /\ i = 0
    /\ X = <<>> /\ y = <<>> /\ splits = <<>>
    /\ X_train = <<>> /\ y_train = <<>>
    /\ X_val = <<>> /\ y_val = <<>>
    /\ X_test = <<>> /\ y_test = <<>>
    /\ pc = "loop"
    /\ err = "none"
    /\ run = 1
    /\ first = <<>>

\* One iteration of the loop whose index assignment succeeds.
LoopBody ==
    /\ pc = "loop"
    /\ i < Len(samples)
    /\ LET sample == samples[i + 1] IN
        /\ AllInBounds(sample.feature, num_features)
        /\ X' = Append(X, MultiHot(sample.feature, num_features))
        /\ y' = Append(y, sample.label)
        /\ splits' = Append(splits, sample.split)
    /\ i' = i + 1
    /\ UNCHANGED <<num_features, task, samples, parts, pc, err, run, first>>

\* variant: the row is appended before the index assignment is attempted
LoopRaiseAfterAppend ==
    /\ pc = "loop"
    /\ i < Len(samples)
    /\ ~AllInBounds(samples[i + 1].feature, num_features)
    /\ X' = Append(X, Zeros(num_features))
    /\ pc' = "raised"
    /\ err' = "IndexError"
    /\ UNCHANGED <<num_features, task, samples, i, y, splits, parts, run, first>>

\* One iteration whose index assignment raises: the cell stops there.
LoopRaise ==
    /\ pc = "loop"
    /\ i < Len(samples)
    /\ ~AllInBounds(samples[i + 1].feature, num_features)
    /\ pc' = "raised"
    /\ err' = "IndexError"
    /\ UNCHANGED <<num_features, task, samples, i, X, y, splits, parts, run, first>>

\* variant: the labels are left as they are, whatever the task
BinarizeSkipped ==
    /\ pc = "loop"
    /\ i = Len(samples)
    /\ pc' = "split"
    /\ UNCHANGED <<num_features, task, samples, i, X, y, splits, parts, err, run, first>>

\* The loop is exhausted: the lists become arrays and the labels of a
\* "lab_" task are thresholded in place.
Binarize ==
    /\ pc = "loop"
    /\ i = Len(samples)
    /\ y' = IF StartsWith(task, LabPrefix) THEN Threshold(y) ELSE y
    /\ pc' = "split"
    /\ UNCHANGED <<num_features, task, samples, i, X, splits, parts, err, run, first>>

\* variant: the validation rows are selected with the test mask
PartitionValFromTest ==
    /\ pc = "split"
    /\ X_train' = BoolIndex(X, Mask(splits, "train"))
    /\ y_train' = BoolIndex(y, Mask(splits, "train"))
    /\ X_val' = BoolIndex(X, Mask(splits, "test"))
    /\ y_val' = BoolIndex(y, Mask(splits, "val"))
    /\ X_test' = BoolIndex(X, Mask(splits, "test"))
    /\ y_test' = BoolIndex(y, Mask(splits, "test"))
    /\ pc' = "done"
    /\ UNCHANGED <<num_features, task, samples, i, X, y, splits, err, run, first>>

\* The three boolean-mask selections.
Partition ==
    /\ pc = "split"
    /\ X_train' = BoolIndex(X, Mask(splits, "train"))
    /\ y_train' = BoolIndex(y, Mask(splits, "train"))
    /\ X_val' = BoolIndex(X, Mask(splits, "val"))
    /\ y_val' = BoolIndex(y, Mask(splits, "val"))
    /\ X_test' = BoolIndex(X, Mask(splits, "test"))
    /\ y_test' = BoolIndex(y, Mask(splits, "test"))
    /\ pc' = "done"
    /\ UNCHANGED <<num_features, task, samples, i, X, y, splits, err, run, first>>

\* variant: the second execution keeps appending to the X of the first
RerunKeepsX ==
    /\ pc \in {"done", "raised"}
    /\ run = 1
    /\ first' = <<pc, err, X, y, splits, parts>>
    /\ y' = <<>> /\ splits' = <<>>
    /\ i' = 0
    /\ pc' = "loop"
    /\ err' = "none"
    /\ run' = 2
    /\ UNCHANGED <<num_features, task, samples, X, parts>>

\* The cell is executed a second time over the same samples.
Rerun ==
    /\ pc \in {"done", "raised"}
    /\ run = 1
    /\ first' = <<pc, err, X, y, splits, parts>>
    /\ X' = <<>> /\ y' = <<>> /\ splits' = <<>>
    /\ i' = 0
    /\ pc' = "loop"
    /\ err' = "none"
    /\ run' = 2
    /\ UNCHANGED <<num_features, task, samples, parts>>

Next == LoopBody \/ LoopRaise \/ Binarize \/ Partition

Spec == Init /\ [][Next]_vars

NextRerun == LoopBody \/ LoopRaise \/ Binarize \/ Partition \/ Rerun

SpecRerun == Init /\ [][NextRerun]_vars

TypeOK ==
    /\ num_features \in 0..MaxFeat
    /\ i \in 0..Len(samples)
    /\ pc \in {"loop", "split", "done", "raised"}
    /\ run \in {1, 2}

(***************************************************************************)
(* Vocabulary of the properties.                                           *)
(***************************************************************************)
PartitionNames == {"train", "val", "test"}

PartX(p) == IF p = "train" THEN X_train ELSE IF p = "val" THEN X_val ELSE X_test

PartY(p) == IF p = "train" THEN y_train ELSE IF p = "val" THEN y_val ELSE y_test

AfterLoop == pc \in {"split", "done"}

\* columns (0-based) of a row that hold 1
OnesOf(row) == {c \in 0..(Len(row) - 1) : row[c + 1] = 1}

\* the feature_indices set of a sample
IndexSet(feature) == {feature[k] : k \in 1..Len(feature)}

\* positions of the input samples that carry split tag p
TaggedWith(p) == {j \in 1..Len(samples) : samples[j].split = p}

\* the k-th smallest element of a set of positions
NthPos(S, k) == CHOOSE j \in S : Cardinality({m \in S : m < j}) = k - 1

Binarizable == StartsWith(task, LabPrefix)

ExpectedLabel(l) == IF Binarizable THEN (IF l >= 1 THEN 1 ELSE 0) ELSE l

\* C1: after the loop, for every sample the columns of its row that are 1
\* are exactly its feature_indices set and all other columns are 0.
C1_RowsEqualFeatureIndices ==
    AfterLoop =>
        /\ Len(X) = Len(samples)
        /\ \A j \in 1..Len(X) :
            /\ Len(X[j]) = num_features
            /\ \A c \in 1..Len(X[j]) : X[j][c] \in {0, 1}
            /\ OnesOf(X[j]) = IndexSet(samples[j].feature)

\* C2: a sample holding an index outside [0, num_features), too large or
\* negative, stops the cell with an IndexError at that sample: the loop never
\* gets past it.
C2_OutOfRangeAlwaysRaises ==
    \A j \in 1..Len(samples) :
        (\E k \in 1..Len(samples[j].feature) :
            samples[j].feature[k] \notin 0..(num_features - 1))
        => /\ i < j
           /\ ~AfterLoop
           /\ (pc = "raised" => err = "IndexError")

\* C3: whatever the split tags, every row is in exactly one partition and the
\* partition sizes add up to the number of samples.
C3_EveryRowInOnePartition ==
    pc = "done" =>
        /\ \A j \in 1..Len(samples) :
            Cardinality({p \in PartitionNames : Mask(splits, p)[j]}) = 1
        /\ Len(X_train) + Len(X_val) + Len(X_test) = Len(samples)
        /\ Len(y_train) + Len(y_val) + Len(y_test) = Len(samples)

\* C4: for a "lab_" task every label L becomes 1 if L >= 1 and 0 otherwise, in
\* y and in the labels of every partition; for any other task the labels are
\* the input labels unchanged.
C4_Binarization ==
    /\ AfterLoop =>
        /\ Len(y) = Len(samples)
        /\ \A j \in 1..Len(y) : y[j] = ExpectedLabel(samples[j].label)
    /\ pc = "done" =>
        \A p \in PartitionNames :
            /\ Len(PartY(p)) = Cardinality(TaggedWith(p))
            /\ \A k \in 1..Len(PartY(p)) :
                PartY(p)[k] = ExpectedLabel(samples[NthPos(TaggedWith(p), k)].label)

C4_Witness ==
    /\ pc = "done"
    /\ Binarizable
    /\ Len(samples) = 2
    /\ samples[1].label = 0 /\ samples[1].split = "train"
    /\ samples[2].label = 2 /\ samples[2].split = "test"
    /\ y = <<0, 1>>
    /\ y_test = <<1>>

\* C5: X, y and splits always have the same length, the number of samples
\* consumed so far; once the loop has finished that is the input length.
C5_ParallelLengths ==
    /\ Len(X) = i
    /\ Len(y) = i
    /\ Len(splits) = i
    /\ AfterLoop => i = Len(samples)

C5_Witness ==
    /\ pc = "done"
    /\ Len(samples) = MaxSamples
    /\ Len(X) = MaxSamples /\ Len(y) = MaxSamples /\ Len(splits) = MaxSamples

\* C6: in each partition the rows and the labels keep the order of the input:
\* the k-th row and the k-th label come from the k-th sample tagged with the
\* partition's name.
C6_OrderPreserved ==
    pc = "done" =>
        \A p \in PartitionNames :
            /\ Len(PartX(p)) = Cardinality(TaggedWith(p))
            /\ Len(PartY(p)) = Cardinality(TaggedWith(p))
            /\ \A k \in 1..Cardinality(TaggedWith(p)) :
                /\ PartX(p)[k] = X[NthPos(TaggedWith(p), k)]
                /\ PartY(p)[k] = y[NthPos(TaggedWith(p), k)]

C6_Witness ==
    /\ pc = "done"
    /\ Len(samples) = 2
    /\ samples[1].split = "train" /\ samples[2].split = "train"
    /\ X[1] # X[2]
    /\ y[1] # y[2]
    /\ X_train = <<X[1], X[2]>>
    /\ y_train = <<y[1], y[2]>>

\* C7: a second execution over the same samples, feature-space size and task
\* ends as the first did, with identical X, y, split tags and partitions.
C7_Idempotent ==
    (run = 2 /\ pc \in {"done", "raised"}) =>
        first = <<pc, err, X, y, splits, parts>>

C7_Witness ==
    /\ run = 2
    /\ pc = "done"
    /\ Len(samples) = 2
    /\ Binarizable
    /\ \E j \in 1..Len(samples) : samples[j].label = 2
    /\ X_train # <<>>

\* C8: with num_features = 0, the iteration over a sample whose feature index
\* array is not empty raises IndexError and appends no row.
C8_ZeroWidthStep ==
    (/\ pc = "loop"
     /\ i < Len(samples)
     /\ num_features = 0
     /\ samples[i + 1].feature # <<>>)
    => (/\ pc' = "raised"
        /\ err' = "IndexError"
        /\ X' = X)

C8_ZeroWidthRaises == [][C8_ZeroWidthStep]_vars

C8_Witness ==
    /\ pc = "raised"
    /\ err = "IndexError"
    /\ num_features = 0
    /\ i = 1
    /\ samples[2].feature # <<>>

\* C9: an empty input, or a partition name no sample carries, is no error:
\* the cell completes and the matrix and labels concerned have zero rows.
C9_EmptyIsNotAnError ==
    /\ samples = <<>> => (pc # "raised" /\ X = <<>> /\ y = <<>>)
    /\ pc = "done" =>
        \A p \in PartitionNames :
            TaggedWith(p) = {} => (PartX(p) = <<>> /\ PartY(p) = <<>>)

C9_Witness ==
    /\ pc = "done"
    /\ Len(samples) = 2
    /\ TaggedWith("val") = {}
    /\ X_val = <<>> /\ y_val = <<>>
    /\ X_train # <<>>

C9_WitnessEmptyInput ==
    /\ pc = "done"
    /\ samples = <<>>
    /\ X = <<>> /\ y = <<>> /\ X_train = <<>>

\* C10: when every split tag is train, val or test, each partition holds
\* exactly the samples carrying its name, so the partitions are disjoint and
\* their sizes add up to the number of samples.
C10_KnownTagsPartition ==
    (pc = "done" /\ \A j \in 1..Len(samples) : samples[j].split \in PartitionNames)
    => /\ Len(X_train) + Len(X_val) + Len(X_test) = Len(samples)
       /\ Len(y_train) + Len(y_val) + Len(y_test) = Len(samples)
       /\ \A p \in PartitionNames :
            /\ Len(PartX(p)) = Cardinality(TaggedWith(p))
            /\ Len(PartY(p)) = Cardinality(TaggedWith(p))
       /\ \A p, q \in PartitionNames : p # q => TaggedWith(p) \cap TaggedWith(q) = {}
       /\ \A j \in 1..Len(samples) :
            \E k \in 1..Len(PartX(samples[j].split)) :
                /\ NthPos(TaggedWith(samples[j].split), k) = j
                /\ PartX(samples[j].split)[k] = X[j]

C10_Witness ==
    /\ pc = "done"
    /\ Len(samples) = 2
    /\ samples[1].split = "val" /\ samples[2].split = "test"
    /\ Len(X_val) = 1 /\ Len(X_test) = 1 /\ Len(X_train) = 0
====
